---- MODULE Spec2Model ----
(***************************************************************************)
(* Model of the Telegram export to HTML converters Html_to_read.py (single *)
(* document) and tg_bulk_export_to_html.py (batch).  The two programs hold *)
(* near-duplicate code; `variant' says which one is running.               *)
(***************************************************************************)
EXTENDS Integers, Sequences, FiniteSets, TLC

VARIABLES variant,          \* which program: "Html_to_read" or "tg_bulk"
          fs,               \* the file system: path -> file
          dst_media_dir,    \* directory name of the destination media folder
          calls,            \* log of the copy_media_file calls made directly
          messages,         \* generate_html's argument
          messages_sorted,  \* sorted(messages, key=get_date)
          idx,              \* position of the rendering loop in messages_sorted
          html_parts,       \* the document assembled in memory
          doc,              \* the HTML file on disk
          pc,               \* control point
          err,              \* the exception that ended the run, or "none"
          text_field,       \* parse_text_field's argument
          text_html,        \* parse_text_field's result
          exports,          \* batch mode: the export directories' documents
          k,                \* batch mode: position in exports (0: not batch)
          batch_log         \* batch mode: what happened to each export

vars == <<variant, fs, dst_media_dir, calls, messages, messages_sorted, idx,
          html_parts, doc, pc, err, text_field, text_html, exports, k,
          batch_log>>

Variants == {"Html_to_read", "tg_bulk"}

(***************************************************************************)
(* Bounds of the model.                                                    *)
(***************************************************************************)
MaxCalls == 2      \* direct copy_media_file calls in one behaviour
MaxMsgs == 3       \* messages in a list whose dates vary
MaxT == 2          \* distinct parsed instants above the minimum instant
MaxMediaMsgs == 2  \* messages in a list whose media references vary
MaxFrags == 2      \* fragments of a text sequence
MaxExports == 3    \* export directories of a batch

(***************************************************************************)
(* The file system.  A path is <<directory, base name>>; directories other *)
(* than "abs" and "dst" are relative to the source root ("" is the root    *)
(* itself), "abs" is an absolute directory elsewhere, "dst" is a           *)
(* destination media directory outside the source root.  A file is absent, *)
(* readable ("ok") or existing but unreadable ("locked").                  *)
(***************************************************************************)
Names == {"a.jpg", "b.pdf"}
SrcDirs == {"abs", "sub", "media", "files", ""}
Paths == (SrcDirs \cup {"dst"}) \X Names
EmptyPath == <<"", "">>
NoFile == [st |-> "absent", data |-> ""]
FileAt(d) == [st |-> "ok", data |-> d]
LockedAt(d) == [st |-> "locked", data |-> d]

Exists(f, p) == f[p].st # "absent"

\* shutil.copy2(src, dst): opens src for reading first, so an unreadable
\* source raises before dst is created; data and mode are preserved.
copy2(f, src, dst) == [f EXCEPT ![dst] = f[src]]

TryDirsFilesFirst == <<"files", "media", "">>

\* for try_dir in ("media", "files", "")
TryDirs == <<"media", "files", "">>

\* The candidate loop of copy_media_file: probes src_base/try_dir/name in
\* TryDirs order and stops at the first that exists.
RECURSIVE ProbeLoop(_, _, _, _, _)
ProbeLoop(f, name, i, src, probes) ==
    IF i > Len(TryDirs) THEN [src |-> src, probes |-> probes]
    ELSE LET candidate == <<TryDirs[i], name>>
         IN  IF Exists(f, candidate)
             THEN [src |-> candidate, probes |-> Append(probes, candidate)]
             ELSE ProbeLoop(f, name, i + 1, src, Append(probes, candidate))

Resolve(f, name, src) == ProbeLoop(f, name, 1, src, <<>>)

CopyIfStale(f, src, dst) ==
    IF Exists(f, dst) /\ f[dst].data = f[src].data
    THEN [fs |-> f, copied |-> FALSE, raised |-> FALSE]
    ELSE IF f[src].st = "locked"
         THEN [fs |-> f, copied |-> FALSE, raised |-> TRUE]
         ELSE [fs |-> copy2(f, src, dst), copied |-> TRUE, raised |-> FALSE]

CopyIfAbsentNoCheck(f, src, dst) ==
    IF f[src].st = "locked" THEN [fs |-> f, copied |-> FALSE, raised |-> TRUE]
    ELSE [fs |-> copy2(f, src, dst), copied |-> TRUE, raised |-> FALSE]

\* if not dst.exists(): shutil.copy2(src, dst)
CopyIfAbsent(f, src, dst) ==
    IF Exists(f, dst) THEN [fs |-> f, copied |-> FALSE, raised |-> FALSE]
    ELSE IF f[src].st = "locked"
         THEN [fs |-> f, copied |-> FALSE, raised |-> TRUE]
         ELSE [fs |-> copy2(f, src, dst), copied |-> TRUE, raised |-> FALSE]

\* copy_media_file(media_path, src_base, dst_media_dir).  ret is "None", the
\* base name returned, or "Raise" when shutil.copy2 raises.  ensure_dir only
\* creates the destination directory, which holds no file then; directories
\* are not tracked.
copy_media_file(media_path, dst_dir, f) ==
    IF media_path = EmptyPath
    THEN [ret |-> "None", fs |-> f, probes |-> <<>>, copied |-> FALSE,
          src |-> EmptyPath]
    ELSE LET src0 == media_path
             r == IF ~Exists(f, src0)
                  THEN Resolve(f, media_path[2], src0)
                  ELSE [src |-> src0, probes |-> <<>>]
             src == r.src
         IN  IF ~Exists(f, src)
             THEN [ret |-> "None", fs |-> f, probes |-> r.probes,
                   copied |-> FALSE, src |-> EmptyPath]
             ELSE LET dst == <<dst_dir, src[2]>>
                      c == CopyIfAbsent(f, src, dst)
                  IN  [ret |-> IF c.raised THEN "Raise" ELSE dst[2],
                       fs |-> c.fs, probes |-> r.probes, copied |-> c.copied,
                       src |-> src]

(***************************************************************************)
(* Dates.  A message's "date" value is one of: key absent; null; a value   *)
(* that is not a string ("num"); a string no parser accepts ("bad"); a     *)
(* naive ISO 8601 string ("iso"); an ISO 8601 string with a UTC offset     *)
(* ("tz"); a string only strptime's %Y-%m-%dT%H:%M:%S accepts, such as     *)
(* 2024-1-5T3:04:05 ("strp").  t is the instant parsed; 0 is datetime.min. *)
(***************************************************************************)
Date(kind, t) == [kind |-> kind, t |-> t]
DateValues ==
    {Date(kd, 0) : kd \in {"absent", "null", "num", "bad"}}
    \cup {Date("iso", t) : t \in 1..MaxT}
    \cup {Date("tz", t) : t \in 1..MaxT}
    \cup {Date("strp", 1)}

datetime_min == [aware |-> FALSE, t |-> 0]
fromisoformat_ok(d) == d.kind \in {"iso", "tz"}
strptime_ok(d) == d.kind \in {"iso", "strp"}
Parsed(d) == [aware |-> d.kind = "tz", t |-> d.t]

\* generate_html.get_date: the sort key.  m.get("date") is None for an absent
\* key and for null; every exception of the parsers is caught.
get_date(v, m) ==
    IF v = "Html_to_read"
    THEN IF m.date.kind \in {"absent", "null"} THEN datetime_min
         ELSE IF fromisoformat_ok(m.date) THEN Parsed(m.date)
         ELSE IF strptime_ok(m.date) THEN Parsed(m.date)
         ELSE datetime_min
    ELSE IF fromisoformat_ok(m.date) THEN Parsed(m.date) ELSE datetime_min

\* datetime.__lt__ raises TypeError for a naive and an aware operand.  A
\* comparison sort that returns has compared enough pairs to link all of its
\* elements, so it returns only when all keys are of one kind.
SortRaises(v, msgs) ==
    \E i, j \in 1..Len(msgs) : get_date(v, msgs[i]).aware # get_date(v, msgs[j]).aware

InsertAt(s, j, m) == SubSeq(s, 1, j - 1) \o <<m>> \o SubSeq(s, j, Len(s))

InsertBeforeEqual(v, s, m) ==
    LET later == {j \in 1..Len(s) : get_date(v, m).t <= get_date(v, s[j]).t}
    IN  IF later = {} THEN Append(s, m)
        ELSE InsertAt(s, CHOOSE j \in later : \A h \in later : j <= h, m)

\* One step of the stable sort: m goes after every element whose key is
\* not greater than its own.
InsertStable(v, s, m) ==
    LET later == {j \in 1..Len(s) : get_date(v, m).t < get_date(v, s[j]).t}
    IN  IF later = {} THEN Append(s, m)
        ELSE InsertAt(s, CHOOSE j \in later : \A h \in later : j <= h, m)

\* sorted(messages, key=get_date), when it returns.
RECURSIVE sorted(_, _)
sorted(v, msgs) ==
    IF msgs = <<>> THEN <<>>
    ELSE InsertStable(v, sorted(v, SubSeq(msgs, 1, Len(msgs) - 1)), msgs[Len(msgs)])

\* iso_to_local(m.get("date", "")): the display value.  An absent key gives
\* "", which no parser accepts and which comes back as it is; null and a
\* non-string come back as they are, not strings.
iso_to_local(v, d) ==
    IF fromisoformat_ok(d) \/ (v = "Html_to_read" /\ strptime_ok(d))
    THEN [isstr |-> TRUE, form |-> "formatted", date |-> d]
    ELSE [isstr |-> d.kind \notin {"null", "num"}, form |-> "raw", date |-> d]

(***************************************************************************)
(* Text.  A string is a sequence of one-character strings; rendered markup *)
(* is a sequence of tokens, joined with no separator.                      *)
(***************************************************************************)
EscapeChar(c) ==
    CASE c = "&" -> "&amp;"
      [] c = "<" -> "&lt;"
      [] c = ">" -> "&gt;"
      [] c = "\"" -> "&quot;"
      [] c = "'" -> "&#x27;"
      [] OTHER -> c

\* html.escape(s), quote=True
html_escape(s) == [i \in 1..Len(s) |-> EscapeChar(s[i])]

\* A fragment of a text sequence: a string ("str", its value in text), an
\* object ("dict", with type, text and href; an absent key is the empty
\* string) or any other value ("other", its str() form in text).
Fragment(shape, type, text, href) ==
    [shape |-> shape, type |-> type, text |-> text, href |-> href]

Anchor(href, txt) ==
    <<"<a href=\"">> \o html_escape(href) \o <<"\" target=\"_blank\">">>
        \o html_escape(txt) \o <<"</a>">>

\* The body of parse_text_field's loop for one part: what it appends.
RenderPart(v, part) ==
    IF part.shape = "str" THEN html_escape(part.text)
    ELSE IF part.shape = "dict"
         THEN IF part.type = "link" /\ part.href # <<>>
              THEN Anchor(part.href, part.text)
              ELSE html_escape(part.text)
         ELSE IF v = "Html_to_read" THEN html_escape(part.text) ELSE <<>>

RECURSIVE JoinParts(_, _, _)
JoinParts(v, parts, i) ==
    IF i > Len(parts) THEN <<>>
    ELSE RenderPart(v, parts[i]) \o JoinParts(v, parts, i + 1)

\* A text field: absent or null ("none"), a string ("str", in s), a
\* sequence of fragments ("list", in parts) or any other value ("other",
\* its str() form in s).
TextField(shape, s, parts) == [shape |-> shape, s |-> s, parts |-> parts]
NoText == TextField("none", <<>>, <<>>)

parse_text_field(v, tf) ==
    IF tf.shape = "none" THEN <<>>
    ELSE IF tf.shape = "str" THEN html_escape(tf.s)
    ELSE IF tf.shape = "list" THEN JoinParts(v, tf.parts, 1)
    ELSE html_escape(tf.s)

(***************************************************************************)
(* Messages.  A media reference is absent, null or empty ("none"), a path  *)
(* string ("str") or a non-empty object ("dict": path is the value under   *)
(* the key the code reads, EmptyPath when the object has no such key).     *)
(* The author, the avatar initial and the page shell are constant markup   *)
(* around the parts below and are left out.                                *)
(***************************************************************************)
MediaRef(shape, path) == [shape |-> shape, path |-> path]
NoRef == MediaRef("none", EmptyPath)

Message(id, date, text, photo, file, document, media, attachments, extras) ==
    [id |-> id, date |-> date, text |-> text, photo |-> photo, file |-> file,
     document |-> document, media |-> media, attachments |-> attachments,
     forwarded_from |-> extras, reply_to |-> extras]

ImageExts == {"jpg"}
Ext(name) == IF name = "a.jpg" THEN "jpg" ELSE "pdf"

\* One copy_media_file call of the rendering loop: the key it serves, and
\* its argument (bad: an object, which Path() rejects with TypeError).
MediaCall(key, ref) == [key |-> key, bad |-> ref.shape = "dict", path |-> ref.path]
PathCall(key, path) == [key |-> key, bad |-> FALSE, path |-> path]

RECURSIVE AttachmentCalls(_, _)
AttachmentCalls(atts, i) ==
    IF i > Len(atts) THEN <<>>
    ELSE (IF atts[i].shape = "dict" /\ atts[i].path # EmptyPath
          THEN <<PathCall("attachments", atts[i].path)>> ELSE <<>>)
         \o AttachmentCalls(atts, i + 1)

\* The copy_media_file calls generate_html makes for message m, in order.
MediaCalls(v, m) ==
    (IF m.photo.shape # "none" THEN <<MediaCall("photo", m.photo)>> ELSE <<>>)
    \o (IF m.file.shape # "none" THEN <<MediaCall("file", m.file)>> ELSE <<>>)
    \o (IF m.document.shape = "none" THEN <<>>
        ELSE IF v = "Html_to_read" /\ m.document.shape = "dict"
                /\ m.document.path # EmptyPath
             THEN <<PathCall("document", m.document.path)>>
             ELSE <<MediaCall("document", m.document)>>)
    \o (IF v = "Html_to_read"
        THEN (IF m.media.shape # "none" /\ m.media.path # EmptyPath
              THEN <<PathCall("media", m.media.path)>> ELSE <<>>)
             \o AttachmentCalls(m.attachments, 1)
        ELSE <<>>)

Part(msg, part, key, name, shown, body) ==
    [msg |-> msg, part |-> part, key |-> key, name |-> name, shown |-> shown,
     body |-> body]
NoShown == [isstr |-> TRUE, form |-> "", date |-> Date("absent", 0)]
Plain(msg, part) == Part(msg, part, "", "", NoShown, <<>>)

\* The markup of one media block: an inline image or a download link.
MediaPart(v, msg, key, copied) ==
    Part(msg, "media", key, copied, NoShown,
         <<IF (key = "photo" /\ v = "Html_to_read")
              \/ (key # "attachments" /\ Ext(copied) \in ImageExts)
           THEN "img" ELSE "link">>)

\* The media section of the loop body: each call in turn; a call that
\* raises ends the run with the copies made so far left in place.
RECURSIVE RunMediaCalls(_, _, _, _, _, _, _)
RunMediaCalls(v, msg, cs, i, dst_dir, f, blocks) ==
    IF i > Len(cs) THEN [fs |-> f, blocks |-> blocks, err |-> "none"]
    ELSE IF cs[i].bad
         THEN [fs |-> f, blocks |-> blocks, err |-> "Path:TypeError"]
         ELSE LET r == copy_media_file(cs[i].path, dst_dir, f)
              IN  IF r.ret = "Raise"
                  THEN [fs |-> r.fs, blocks |-> blocks,
                        err |-> "copy2:PermissionError"]
                  ELSE RunMediaCalls(v, msg, cs, i + 1, dst_dir, r.fs,
                           IF r.ret = "None" THEN blocks
                           ELSE Append(blocks, MediaPart(v, msg, cs[i].key, r.ret)))

\* The body of generate_html's loop for message m.
RenderMessage(v, m, dst_dir, f) ==
    LET date == iso_to_local(v, m.date)
        rendered == parse_text_field(v, m.text)
        head == <<Plain(m.id, "open"), Part(m.id, "meta", "", "", date, <<>>)>>
                \o (IF rendered # <<>>
                    THEN <<Part(m.id, "text", "", "", NoShown, rendered)>>
                    ELSE <<>>)
        r == RunMediaCalls(v, m.id, MediaCalls(v, m), 1, dst_dir, f, <<>>)
        tail == IF v = "Html_to_read"
                THEN (IF m.forwarded_from THEN <<Plain(m.id, "fwd")>> ELSE <<>>)
                     \o (IF m.reply_to THEN <<Plain(m.id, "reply")>> ELSE <<>>)
                ELSE <<>>
    IN  IF ~date.isstr
        THEN [parts |-> <<>>, fs |-> f, err |-> "escape:AttributeError"]
        ELSE IF r.err # "none" THEN [parts |-> <<>>, fs |-> r.fs, err |-> r.err]
        ELSE [parts |-> head \o r.blocks \o tail \o <<Plain(m.id, "close")>>,
              fs |-> r.fs, err |-> "none"]

(***************************************************************************)
(* Inputs.                                                                 *)
(***************************************************************************)
SeqsUpTo(S, n) == UNION {[1..len -> S] : len \in 0..n}

NoFiles == [p \in Paths |-> NoFile]
NoDoc == [written |-> FALSE, parts |-> <<>>]

\* Every source location of a.jpg absent, readable or unreadable; the
\* destination directory is outside the source root ("dst", empty or with
\* an older a.jpg) or is the source root's own media directory.
CopyFileSystems ==
    {[p \in Paths |->
        IF p[2] # "a.jpg" THEN NoFile
        ELSE IF p[1] = "dst" THEN (IF old THEN FileAt("old") ELSE NoFile)
        ELSE IF st[p[1]] = "ok" THEN FileAt(p[1])
        ELSE IF st[p[1]] = "locked" THEN LockedAt(p[1])
        ELSE NoFile] :
     st \in [SrcDirs -> {"absent", "ok", "locked"}], old \in BOOLEAN}

CopyArgs == {EmptyPath} \cup (SrcDirs \X {"a.jpg"})

\* Messages that differ in their dates only.
DatedLists ==
    {[i \in DOMAIN ds |->
        Message(i, ds[i], NoText, NoRef, NoRef, NoRef, NoRef, <<>>, FALSE)] :
     ds \in SeqsUpTo(DateValues, MaxMsgs)}

\* Messages that differ in the media keys they carry.  Each key, when
\* present, holds a fixed reference.
MediaKeys == <<"photo", "file", "document", "media", "attachments">>
KeySets ==
    {{}, {"photo"}, {"file"}, {"document"}, {"media"}, {"attachments"},
     {"photo", "file"}, {"photo", "file", "document", "media", "attachments"}}
MediaShapes ==
    {[keys |-> ks, extras |-> x] : ks \in KeySets, x \in BOOLEAN}
MediaMessage(i, sh) ==
    Message(i, Date("iso", 1),
        IF sh.extras THEN TextField("str", <<"h", "<">>, <<>>) ELSE NoText,
        IF "photo" \in sh.keys THEN MediaRef("str", <<"", "a.jpg">>) ELSE NoRef,
        IF "file" \in sh.keys THEN MediaRef("str", <<"sub", "b.pdf">>) ELSE NoRef,
        IF "document" \in sh.keys THEN MediaRef("dict", <<"", "b.pdf">>) ELSE NoRef,
        IF "media" \in sh.keys THEN MediaRef("dict", <<"sub", "a.jpg">>) ELSE NoRef,
        IF "attachments" \in sh.keys
        THEN <<MediaRef("dict", <<"", "a.jpg">>), MediaRef("dict", <<"files", "b.pdf">>)>>
        ELSE <<>>,
        sh.extras)
MediaLists ==
    {[i \in DOMAIN shs |-> MediaMessage(i, shs[i])] :
     shs \in SeqsUpTo(MediaShapes, MaxMediaMsgs)}

\* Where a name's file is: nowhere; at every place a reference names;
\* only under files/ (found by the candidate loop); at the places named,
\* unreadable.
Placed(name, where) ==
    [p \in Paths |->
        IF p[2] # name \/ p[1] \in {"dst", "abs"} THEN NoFile
        ELSE IF where = "direct" /\ p[1] \in {"", "sub", "files"} THEN FileAt(p[1])
        ELSE IF where = "moved" /\ p[1] = "files" THEN FileAt(p[1])
        ELSE IF where = "locked" /\ p[1] \in {"", "sub", "files"} THEN LockedAt(p[1])
        ELSE NoFile]
MediaFileSystems ==
    {[p \in Paths |-> IF p[2] = "a.jpg" THEN Placed("a.jpg", wa)[p]
                                         ELSE Placed("b.pdf", wb)[p]] :
     wa \in {"missing", "direct", "moved", "locked"},
     wb \in {"missing", "direct"}}

(***************************************************************************)
(* generate_html                                                           *)
(***************************************************************************)
InitGenerate(msgs) ==
    /\ messages = msgs
    /\ messages_sorted = <<>>
    /\ idx = 0
    /\ html_parts = <<>>
    /\ doc = NoDoc
    /\ pc = "sort"
    /\ err = "none"

IdleCopy == calls = <<>>
IdleText == text_field = NoText /\ text_html = <<>>
IdleBatch == exports = <<>> /\ k = 0 /\ batch_log = <<>>

\* messages_sorted = sorted(messages, key=get_date)
SortMessages ==
    /\ pc = "sort"
    /\ IF SortRaises(variant, messages)
       THEN /\ pc' = "raised"
            /\ err' = "sort:TypeError"
            /\ UNCHANGED <<messages_sorted, idx>>
       ELSE /\ messages_sorted' = sorted(variant, messages)
            /\ idx' = 1
            /\ pc' = "render"
            /\ UNCHANGED err
    /\ UNCHANGED <<variant, fs, dst_media_dir, calls, messages, html_parts, doc,
                   text_field, text_html, exports, k, batch_log>>

WriteEarly(i, n) == i >= 1

\* The write follows the loop over messages_sorted.
LoopDone(i, n) == i > n

\* One pass of the loop over messages_sorted.
RenderNext ==
    /\ pc = "render"
    /\ idx <= Len(messages_sorted)
    /\ LET r == RenderMessage(variant, messages_sorted[idx], dst_media_dir, fs)
       IN  /\ fs' = r.fs
           /\ IF r.err # "none"
              THEN /\ pc' = "raised"
                   /\ err' = r.err
                   /\ UNCHANGED <<html_parts, idx>>
              ELSE /\ html_parts' = html_parts \o r.parts
                   /\ idx' = idx + 1
                   /\ UNCHANGED <<pc, err>>
    /\ UNCHANGED <<variant, dst_media_dir, calls, messages, messages_sorted, doc,
                   text_field, text_html, exports, k, batch_log>>

\* f.write(html_text): the one write of the document.
WriteDocument ==
    /\ pc = "render"
    /\ LoopDone(idx, Len(messages_sorted))
    /\ doc' = [written |-> TRUE, parts |-> html_parts]
    /\ pc' = "done"
    /\ UNCHANGED <<variant, fs, dst_media_dir, calls, messages, messages_sorted,
                   idx, html_parts, err, text_field, text_html, exports, k,
                   batch_log>>

NextGenerate == SortMessages \/ RenderNext \/ WriteDocument

InitSort ==
    /\ variant \in Variants
    /\ fs = NoFiles
    /\ dst_media_dir = "dst"
    /\ \E msgs \in DatedLists : InitGenerate(msgs)
    /\ IdleCopy /\ IdleText /\ IdleBatch

SpecSort == InitSort /\ [][NextGenerate]_vars

InitMedia ==
    /\ variant \in Variants
    /\ fs \in MediaFileSystems
    /\ dst_media_dir \in {"dst", "media"}
    /\ \E msgs \in MediaLists : InitGenerate(msgs)
    /\ IdleCopy /\ IdleText /\ IdleBatch

SpecMedia == InitMedia /\ [][NextGenerate]_vars

(***************************************************************************)
(* copy_media_file called directly, any number of times on one file system *)
(***************************************************************************)
IdleGenerate ==
    /\ messages = <<>>
    /\ messages_sorted = <<>>
    /\ idx = 0
    /\ html_parts = <<>>
    /\ doc = NoDoc
    /\ err = "none"

InitCopy ==
    /\ variant \in Variants
    /\ fs \in CopyFileSystems
    /\ dst_media_dir \in {"dst", "media"}
    /\ dst_media_dir = "media" => fs[<<"dst", "a.jpg">>] = NoFile
    /\ calls = <<>>
    /\ pc = "copy"
    /\ IdleGenerate /\ IdleText /\ IdleBatch

\* One call; the log keeps the file system the call found.
CallCopy ==
    /\ pc = "copy"
    /\ Len(calls) < MaxCalls
    /\ \E media_path \in CopyArgs :
          LET r == copy_media_file(media_path, dst_media_dir, fs)
          IN  /\ fs' = r.fs
              /\ calls' = Append(calls,
                     [media_path |-> media_path, pre |-> fs, ret |-> r.ret,
                      probes |-> r.probes, copied |-> r.copied, src |-> r.src])
    /\ UNCHANGED <<variant, dst_media_dir, messages, messages_sorted, idx,
                   html_parts, doc, pc, err, text_field, text_html, exports, k,
                   batch_log>>

NextCopy == CallCopy

SpecCopy == InitCopy /\ [][NextCopy]_vars

(***************************************************************************)
(* parse_text_field on its own                                             *)
(***************************************************************************)
Strings == {<<>>, <<"a">>, <<"<", "&">>}
Fragments ==
    {Fragment("str", "", t, <<>>) : t \in Strings}
    \cup {Fragment("dict", ty, t, h) :
            ty \in {"link", "bot_command", "bold"}, t \in {<<>>, <<"a", "<">>},
            h \in {<<>>, <<"u", "&">>}}
    \cup {Fragment("other", "", <<"5">>, <<>>)}
TextFields ==
    {NoText, TextField("other", <<"5">>, <<>>)}
    \cup {TextField("str", t, <<>>) : t \in Strings}
    \cup {TextField("list", <<>>, ps) : ps \in SeqsUpTo(Fragments, MaxFrags)}

InitText ==
    /\ variant \in Variants
    /\ fs = NoFiles
    /\ dst_media_dir = "dst"
    /\ text_field \in TextFields
    /\ text_html = <<>>
    /\ pc = "text"
    /\ IdleGenerate /\ IdleCopy /\ IdleBatch

ParseText ==
    /\ pc = "text"
    /\ text_html' = parse_text_field(variant, text_field)
    /\ pc' = "text_done"
    /\ UNCHANGED <<variant, fs, dst_media_dir, calls, messages, messages_sorted,
                   idx, html_parts, doc, err, text_field, exports, k, batch_log>>

NextText == ParseText

SpecText == InitText /\ [][NextText]_vars

(***************************************************************************)
(* tg_bulk_export_to_html.main: the loop over the export directories.      *)
(* An export's source document cannot be read ("unreadable"), is not JSON  *)
(* ("malformed"), is a bare list ("list"), or is an object ("object",      *)
(* whose messages value, [] when the key is absent, is in msgs).           *)
(***************************************************************************)
Export(shape, msgs) == [shape |-> shape, msgs |-> msgs]
ExportMessages ==
    {[i \in DOMAIN ds |->
        Message(i, ds[i], NoText, NoRef, NoRef, NoRef, NoRef, <<>>, FALSE)] :
     ds \in {<<>>, <<Date("iso", 1)>>, <<Date("iso", 2), Date("bad", 0)>>,
             <<Date("null", 0)>>}}
Exports ==
    {Export(sh, <<>>) : sh \in {"unreadable", "malformed"}}
    \cup {Export("list", ms) : ms \in ExportMessages}
    \cup {Export("object", ms) : ms \in ExportMessages}

InitBatch ==
    /\ variant = "tg_bulk"
    /\ fs = NoFiles
    /\ dst_media_dir = "dst"
    /\ exports \in SeqsUpTo(Exports, MaxExports)
    /\ exports # <<>>
    /\ k = 1
    /\ batch_log = <<>>
    /\ pc = "main"
    /\ IdleGenerate /\ IdleCopy /\ IdleText

\* try: data = json.loads(json_file.read_text(...)) except Exception: the
\* failures the try block catches.
Caught(e) == e.shape \in {"unreadable", "malformed"}

\* The head of the loop body for export k: load the document, then
\* data.get("messages", []) and the call of generate_html, which writes
\* into the chat's own output directory (doc starts absent there).
BatchLoad ==
    /\ pc = "main"
    /\ k <= Len(exports)
    /\ LET e == exports[k]
       IN  IF Caught(e)
           THEN /\ batch_log' = Append(batch_log, "skipped")
                /\ k' = k + 1
                /\ UNCHANGED <<messages, messages_sorted, idx, html_parts, doc,
                               pc, err>>
           ELSE IF e.shape # "object"
           THEN /\ pc' = "raised"
                /\ err' = "data.get:AttributeError"
                /\ UNCHANGED <<messages, messages_sorted, idx, html_parts, doc,
                               k, batch_log>>
           ELSE /\ messages' = e.msgs
                /\ messages_sorted' = <<>>
                /\ idx' = 0
                /\ html_parts' = <<>>
                /\ doc' = NoDoc
                /\ pc' = "sort"
                /\ UNCHANGED <<err, k, batch_log>>
    /\ UNCHANGED <<variant, fs, dst_media_dir, calls, text_field, text_html,
                   exports>>

\* generate_html returned: print, and on to the next export.
BatchResume ==
    /\ pc = "done"
    /\ k >= 1
    /\ batch_log' = Append(batch_log, "written")
    /\ k' = k + 1
    /\ pc' = "main"
    /\ UNCHANGED <<variant, fs, dst_media_dir, calls, messages, messages_sorted,
                   idx, html_parts, doc, err, text_field, text_html, exports>>

\* The loop is over.
BatchFinish ==
    /\ pc = "main"
    /\ k > Len(exports)
    /\ pc' = "finished"
    /\ UNCHANGED <<variant, fs, dst_media_dir, calls, messages, messages_sorted,
                   idx, html_parts, doc, err, text_field, text_html, exports, k,
                   batch_log>>

NextBatch ==
    BatchLoad \/ SortMessages \/ RenderNext \/ WriteDocument \/ BatchResume
        \/ BatchFinish

SpecBatch == InitBatch /\ [][NextBatch]_vars

(***************************************************************************)
(* Properties                                                              *)
(***************************************************************************)
IsOpen(p) == p.part = "open"
IsMedia(p) == p.part = "media"
Ids(parts) == [i \in 1..Len(parts) |-> parts[i].msg]
Keys(parts) == [i \in 1..Len(parts) |-> parts[i].key]

\* The order of the message blocks of the written document.
BlockOrder == Ids(SelectSeq(doc.parts, IsOpen))

\* A message's timestamp: the instant its date parses to under the running
\* program's parsers, the minimum instant 0 when it is absent or unparseable.
Timestamp(m) ==
    CASE m.date.kind \in {"absent", "null", "num", "bad"} -> 0
      [] m.date.kind \in {"iso", "tz"} -> m.date.t
      [] m.date.kind = "strp" -> IF variant = "Html_to_read" THEN m.date.t ELSE 0

C8_TimestampNeverRaises == err \notin {"sort:TypeError", "escape:AttributeError"}

\* C2: a media reference whose file is missing or unreadable raises no
\* error, gets no markup, and the document is still written.
C2_UnusableMediaIsSkipped ==
    /\ err # "copy2:PermissionError"
    /\ doc.written =>
          \A i \in 1..Len(doc.parts) :
              IsMedia(doc.parts[i]) => Exists(fs, <<dst_media_dir, doc.parts[i].name>>)

\* C7: the document is written only by the one write that follows the
\* rendering of every message; a run that stops with an error has written
\* no document.
C7_WrittenOnlyAfterAllRendered ==
    /\ doc.written =>
          /\ pc \in {"done", "main", "finished"}
          /\ err = "none"
          /\ doc.parts = html_parts
          /\ \A i \in 1..Len(messages) :
                \E j \in 1..Len(doc.parts) :
                    doc.parts[j].msg = i /\ doc.parts[j].part = "close"
    /\ pc = "raised" => ~doc.written

\* A written document of two messages with a media block.
C7_Witness ==
    /\ doc.written
    /\ Len(messages) = 2
    /\ \E j \in 1..Len(doc.parts) : IsMedia(doc.parts[j]) /\ doc.parts[j].msg = 2

\* The references message m carries, in the order photo, file, document,
\* media, attachments.
RefsOf(m) ==
    LET one(key, ref) == IF ref.shape = "none" THEN <<>>
                         ELSE <<[key |-> key, path |-> ref.path]>>
    IN  one("photo", m.photo) \o one("file", m.file) \o one("document", m.document)
        \o one("media", m.media)
        \o [i \in 1..Len(m.attachments) |->
              [key |-> "attachments", path |-> m.attachments[i].path]]

\* The reference resolves: its path, or a candidate of its base name, exists.
Resolves(f, path) ==
    \/ Exists(f, path)
    \/ \E d \in {"media", "files", ""} : Exists(f, <<d, path[2]>>)

ResolvingRef(r) == Resolves(fs, r.path)

\* C10: in the written document every message has one media block for every
\* key that is present and resolves, in the order photo, file, document,
\* media, attachments, after its text block and before its forwarding and
\* reply lines.  (Stated for a destination outside the source root, where
\* copying does not change what resolves.)
C10_EveryKeyRendersInOrder ==
    (doc.written /\ dst_media_dir = "dst") =>
        \A id \in 1..Len(messages) :
            LET mine(p) == p.msg = id
                ps == SelectSeq(doc.parts, mine)
                pos(kinds) == {j \in 1..Len(ps) : ps[j].part \in kinds}
            IN  /\ Keys(SelectSeq(ps, IsMedia))
                      = Keys(SelectSeq(RefsOf(messages[id]), ResolvingRef))
                /\ \A a \in pos({"text"}), b \in pos({"media"}) : a < b
                /\ \A a \in pos({"media"}), b \in pos({"fwd", "reply"}) : a < b
                /\ messages[id].forwarded_from => pos({"fwd"}) # {}
                /\ messages[id].reply_to => pos({"reply"}) # {}

\* C3: of two successive calls with the same media path the second copies
\* nothing and ends as the first did (the same base name, None, or the same
\* error of the copy).
C3_SecondCallCopiesNothing ==
    \A i \in 1..(Len(calls) - 1) :
        calls[i].media_path = calls[i + 1].media_path =>
            /\ ~calls[i + 1].copied
            /\ calls[i + 1].ret = calls[i].ret

\* The first call copied the file, the second was made with the same path.
C3_Witness ==
    /\ Len(calls) = 2
    /\ calls[1].media_path = calls[2].media_path
    /\ calls[1].copied
    /\ calls[2].ret = "a.jpg"

\* C4: a file present in the destination media directory is never changed.
C4_DestinationAppendOnly ==
    [][\A n \in Names :
          Exists(fs, <<dst_media_dir, n>>)
              => fs'[<<dst_media_dir, n>>] = fs[<<dst_media_dir, n>>]]_vars

\* Two calls resolved to different source files of one base name; the
\* destination holds the first one's content.
C4_Witness ==
    /\ Len(calls) = 2
    /\ calls[1].copied
    /\ calls[2].ret = "a.jpg"
    /\ calls[2].src # calls[1].src
    /\ calls[2].src[1] # dst_media_dir
    /\ fs[<<dst_media_dir, "a.jpg">>] = FileAt(calls[1].src[1])

\* C5: a call whose path exists as given probes nothing and uses the path;
\* otherwise it probes media/, files/ and the root for the base name, in
\* that order and no further than the first that exists, and uses that one;
\* when none exists it returns None and copies nothing.
C5_ProbeOrder ==
    \A i \in 1..Len(calls) :
        LET c == calls[i]
            name == c.media_path[2]
            cand == <<(<<"media", name>>), (<<"files", name>>), (<<"", name>>)>>
            hits == {j \in 1..3 : Exists(c.pre, cand[j])}
            first == CHOOSE j \in hits : \A h \in hits : j <= h
        IN  c.media_path # EmptyPath =>
              IF Exists(c.pre, c.media_path)
              THEN c.probes = <<>> /\ c.src = c.media_path
              ELSE IF hits = {}
                   THEN c.probes = cand /\ c.ret = "None" /\ ~c.copied
                        /\ c.src = EmptyPath
                   ELSE c.probes = SubSeq(cand, 1, first) /\ c.src = cand[first]
                        /\ c.ret \in {name, "Raise"}

\* A call whose path and media/ candidate are absent and whose files/
\* candidate exists beside the root one.
C5_Witness ==
    \E i \in 1..Len(calls) :
        /\ calls[i].media_path = <<"sub", "a.jpg">>
        /\ Len(calls[i].probes) = 2
        /\ calls[i].src = <<"files", "a.jpg">>
        /\ Exists(calls[i].pre, <<"", "a.jpg">>)
        /\ calls[i].copied

\* What the text renderer is to give for one fragment.
ExpectedPart(part) ==
    CASE part.shape = "str" -> html_escape(part.text)
      [] part.shape = "dict" /\ part.type = "link" /\ part.href # <<>> ->
            <<"<a href=\"">> \o html_escape(part.href) \o <<"\" target=\"_blank\">">>
                \o html_escape(part.text) \o <<"</a>">>
      [] part.shape = "dict" /\ ~(part.type = "link" /\ part.href # <<>>) ->
            html_escape(part.text)
      [] part.shape = "other" -> html_escape(part.text)

RECURSIVE ExpectedJoin(_)
ExpectedJoin(parts) ==
    IF parts = <<>> THEN <<>>
    ELSE ExpectedJoin(SubSeq(parts, 1, Len(parts) - 1))
         \o ExpectedPart(parts[Len(parts)])

\* C9: a sequence renders as the concatenation, in order, of every
\* fragment's rendering; no fragment is dropped.
C9_SequenceRendersEveryFragment ==
    (pc = "text_done" /\ text_field.shape = "list")
        => text_html = ExpectedJoin(text_field.parts)

\* C6: no export's source document aborts the batch; when the loop is over
\* every export was either written or skipped.
C6_BatchNeverAborted ==
    /\ pc # "raised"
    /\ pc = "finished" => Len(batch_log) = Len(exports)

====
